---- MODULE Spec2Model ----
(***************************************************************************)
(* Skill-to-Role Recommendation Engine (backend/rag_engine.py, RAGEngine). *)
(*                                                                         *)
(* Four specifications share the variables below:                          *)
(*   Spec       the Embedding Indexer: embed_roles() calls, run statement  *)
(*              by statement and interleaved, against the role_embeddings  *)
(*              table (PostgreSQL, READ COMMITTED, unique role_name);      *)
(*   SpecEstimate  _estimate_learning_time on its own, over gap counts;    *)
(*   SpecParse  the career_progression parser on its own, over strings;    *)
(*   SpecQuery  the read-only operations: match_skills, recommend_roles,   *)
(*              get_career_progression, _calculate_skill_overlap,          *)
(*              suggest_upskilling, get_all_roles and get_all_skills, one  *)
(*              call at a time on a catalogue and a committed table.       *)
(*                                                                         *)
(* A Python str is a sequence of one-character strings, so that lower()    *)
(* and strip() are computed, not assumed.                                  *)
(***************************************************************************)
EXTENDS Integers, Sequences, FiniteSets, TLC

\* ------------------------------------------------------------------ bounds
\* embed_roles() calls that may be in progress at the same time
NumRuns == 2
\* embed_roles() calls started in one behaviour
MaxCalls == 2
\* longest candidate skill list a caller passes
MaxCand == 2
\* longest gap list (core, advanced or tools) the estimator is given
MaxGaps == 6
\* longest generated career_progression string
MaxProg == 4
\* how far around each multiple of 0.1 cosine distances are taken, in 1e-5
MaxNear == 12

\* ------------------------------------------------------- program constants
\* missing[:10]
MissingCap == 10
\* core_gaps[:5]
PriorityCap == 5
\* validate_top_k: 1 <= top_k <= 20
MaxTopK == 20

\* ----------------------------------------------------------------- strings
Space == " "

UpperChars == <<"A","B","C","D","E","F","G","H","I","J","K","L","M",
                "N","O","P","Q","R","S","T","U","V","W","X","Y","Z">>
LowerChars == <<"a","b","c","d","e","f","g","h","i","j","k","l","m",
                "n","o","p","q","r","s","t","u","v","w","x","y","z">>

\* str.lower() on one character
LowerChar(c) ==
    IF \E k \in 1..Len(UpperChars) : UpperChars[k] = c
    THEN LowerChars[CHOOSE k \in 1..Len(UpperChars) : UpperChars[k] = c]
    ELSE c

\* s.lower()
Lower(s) == [k \in 1..Len(s) |-> LowerChar(s[k])]

SetMin(S) == CHOOSE x \in S : \A y \in S : x <= y
SetMax(S) == CHOOSE x \in S : \A y \in S : x >= y

\* s.strip(): leading and trailing whitespace removed, inner whitespace kept
Strip(s) ==
    LET inked == {k \in 1..Len(s) : s[k] # Space}
    IN  IF inked = {} THEN <<>> ELSE SubSeq(s, SetMin(inked), SetMax(inked))

\* s.lower().strip()
Normalize(s) == Strip(Lower(s))

\* set(seq)
Elems(seq) == {seq[k] : k \in 1..Len(seq)}

\* seq[:n]
Take(seq, n) == SubSeq(seq, 1, IF Len(seq) < n THEN Len(seq) ELSE n)

\* --------------------------------------------------------------- catalogue
\* knowledge_base.json is not part of the sources; these roles are an input:
\* the scenario role of the specification, a role with more than ten
\* required skills, a role whose skill strings carry whitespace and repeat
\* across tiers in different casing, and, in a catalogue of its own, a role
\* with one skill in two tiers and one skill written with a leading blank.
RoleDA ==
    [role_name |-> <<"D","A">>, category |-> "Data", role_summary |-> "analyst",
     core_skills |-> << <<"P","y">>, <<"S","Q","L">>, <<"E","x">> >>,
     advanced_skills |-> << <<"S","t">> >>,
     tools_and_technologies |-> << <<"T","a">> >>,
     responsibilities |-> << "reports" >>,
     career_progression |-> <<"D","A",Space,"->",Space,"B","I",Space,"->",Space,"C","X">>]

RoleBI ==
    [role_name |-> <<"B","I">>, category |-> "Data", role_summary |-> "engineer",
     core_skills |-> << <<"a">>, <<"b">>, <<"c">>, <<"d">>, <<"E">> >>,
     advanced_skills |-> << <<"f">>, <<"g">>, <<"h">>, <<"i">> >>,
     tools_and_technologies |-> << <<"j">>, <<"k">>, <<"l">> >>,
     responsibilities |-> << >>,
     career_progression |-> <<"P","D">>]

RolePD ==
    [role_name |-> <<"P","D">>, category |-> "Web", role_summary |-> "developer",
     core_skills |-> << <<Space,"G","o">>, <<"S","Q","L">> >>,
     advanced_skills |-> << <<"g","o">> >>,
     tools_and_technologies |-> << <<"s","q","l",Space>> >>,
     responsibilities |-> << "code", "review" >>,
     career_progression |-> << >>]

KnowledgeBase == <<RoleDA, RoleBI, RolePD>>

RoleQA ==
    [role_name |-> <<"Q","A">>, category |-> "Test", role_summary |-> "tester",
     core_skills |-> << <<"J","s">> >>,
     advanced_skills |-> << <<"J","S">> >>,
     tools_and_technologies |-> << <<Space,"C","i">> >>,
     responsibilities |-> << "test" >>,
     career_progression |-> << >>]

KnowledgeBaseQA == <<RoleQA>>

\* the file at knowledge_base_path: absent, a JSON object without a 'roles'
\* key, or one of the catalogues
KnowledgeBaseFiles ==
    {[exists |-> FALSE],
     [exists |-> TRUE, content |-> [version |-> "1"]],
     [exists |-> TRUE, content |-> [roles |-> KnowledgeBase]],
     [exists |-> TRUE, content |-> [roles |-> KnowledgeBaseQA]]}

\* a built-in catalogue in place of the empty one
LoadKnowledgeBase_sample(file) ==
    IF file.exists THEN file.content ELSE [roles |-> <<RoleDA>>]

\* _load_knowledge_base (lines 51-58): json.load(f), or {"roles": []} on
\* FileNotFoundError
LoadKnowledgeBase(file) ==
    IF file.exists THEN file.content ELSE [roles |-> << >>]

\* self.knowledge_base.get('roles', [])
RolesOf(knowledge_base) ==
    IF "roles" \in DOMAIN knowledge_base THEN knowledge_base.roles ELSE << >>

\* the catalogues an engine may hold after construction
Catalogues == {RolesOf(LoadKnowledgeBase(file)) : file \in KnowledgeBaseFiles}

\* a role indexed under an earlier catalogue and since removed from it
GhostName == <<"G","H">>

\* skills a caller may pass
CandSkills == { <<"P","y">>, <<"s","q","l">>, <<Space,"G","O",Space>> }

RECURSIVE SeqsUpTo(_, _)
SeqsUpTo(S, n) ==
    IF n = 0 THEN {<< >>}
    ELSE LET shorter == SeqsUpTo(S, n - 1)
         IN  shorter \cup {Append(q, x) : q \in shorter, x \in S}

CandLists == SeqsUpTo(CandSkills, MaxCand)

\* ------------------------------------------------------------------- state
VARIABLES
    kb,      \* self.knowledge_base['roles']: the catalogue, a sequence of roles
    store,   \* the committed rows of table role_embeddings
    run,     \* per embed_roles() call in progress: its position and locals
    calls,   \* embed_roles() calls started so far
    res      \* the read-only call in progress or just returned

vars == <<kb, store, run, calls, res>>

RunIds == 1..NumRuns

\* _create_role_embedding_text: the parts, in order, before " | ".join(parts)
CreateRoleEmbeddingText(role) ==
    << role.role_name, role.role_summary >>
    \o (IF role.core_skills # << >>
        THEN << <<"Core skills: ", role.core_skills>> >> ELSE << >>)
    \o (IF role.advanced_skills # << >>
        THEN << <<"Advanced skills: ", role.advanced_skills>> >> ELSE << >>)
    \o (IF role.tools_and_technologies # << >>
        THEN << <<"Technologies: ", role.tools_and_technologies>> >> ELSE << >>)
    \o (IF role.responsibilities # << >>
        THEN << <<"Responsibilities: ", role.responsibilities>> >> ELSE << >>)

\* self.model.encode(text).tolist(): a function of the text alone
Encode(text) == [vec |-> text]

\* a row of role_embeddings
Row(id, name, category, embedding, stamp) ==
    [id |-> id, role_name |-> name, category |-> category,
     embedding |-> embedding, created_at |-> stamp]

\* the rows an earlier, completed indexing of catalogue c left behind
IndexedRows(c) ==
    {Row(<<0, k>>, c[k].role_name, c[k].category,
         Encode(CreateRoleEmbeddingText(c[k])), 0) : k \in 1..Len(c)}

GhostRow == Row(<<0, 0>>, GhostName, "Old", Encode(<<GhostName, "gone">>), 0)

\* what the table may hold when the process starts
InitialStores(c) ==
    { {}, {GhostRow}, IndexedRows(Take(c, 1)), IndexedRows(c),
      IndexedRows(c) \cup {GhostRow} }

IdleRun ==
    [pc |-> "idle", i |-> 0, pending |-> {}, embedded_count |-> 0,
     skipped_count |-> 0, looked |-> << >>, encoded |-> << >>, conn |-> "none",
     success |-> FALSE, message |-> "", failed_at |-> "", call |-> 0,
     after_success |-> FALSE, rows_at_start |-> 0]

NoCall == [op |-> "none"]

Init ==
    /\ kb \in Catalogues
    /\ store \in InitialStores(kb)
    /\ run = [r \in RunIds |-> IdleRun]
    /\ calls = 0
    /\ res = NoCall

\* ---------------------------------------------------------- exceptions
\* what a failing call raises: psycopg2.Error from the storage calls,
\* RuntimeError from the embedding model; both derive from Exception
ExcOf(at) == IF at = "encode" THEN "RuntimeError" ELSE "psycopg2.Error"

ExceptionClasses == {"psycopg2.Error", "RuntimeError"}

\* except psycopg2.Error
Caught_storage(exc) == exc = "psycopg2.Error"

\* `except Exception as e`, the handler of every engine operation
Caught(exc) == exc \in ExceptionClasses

\* ------------------------------------------------- embed_roles (lines 70-133)
\* The statements of one call r, in program order:
\*   idle -> connect -> (select -> [encode -> upsert])* -> commit -> done
\* and from any of them, on an exception, -> failed (the except clause).

\* SELECT id FROM role_embeddings WHERE role_name = %s; cursor.fetchone():
\* under READ COMMITTED the statement sees the committed rows and the rows
\* its own transaction wrote
RowExists_never(r, name) == FALSE

RowExists(r, name) ==
    \/ \E row \in store : row.role_name = name
    \/ \E p \in run[r].pending : p.role_name = name

\* INSERT ... ON CONFLICT (role_name): the unique index makes the statement
\* wait for any other open transaction that wrote the same role_name
Unlocked_always(r, name) == TRUE

Unlocked(r, name) ==
    \A q \in RunIds \ {r} : \A p \in run[q].pending : p.role_name # name

\* INSERT ... ON CONFLICT (role_name) DO UPDATE SET embedding, category,
\* created_at: the write the statement leaves pending in r's transaction.
\* CURRENT_TIMESTAMP is the transaction's start; the call number stands for it.
UpsertWrite(r, k) ==
    [op |-> IF RowExists(r, kb[k].role_name) THEN "update" ELSE "insert",
     id |-> <<run[r].call, k>>,
     role_name |-> kb[k].role_name,
     category |-> kb[k].category,
     embedding |-> Encode(CreateRoleEmbeddingText(kb[k])),
     created_at |-> run[r].call]

\* an update carried out as delete and insert: the row gets a new id
ApplyPending_replace(st, pending) ==
    {row \in st : ~\E p \in pending : p.role_name = row.role_name}
    \cup {Row(p.id, p.role_name, p.category, p.embedding, p.created_at) :
             p \in pending}

\* conn.commit(): the pending writes become the committed rows
ApplyPending(st, pending) ==
    LET updated(row) ==
            IF \E p \in pending : p.op = "update" /\ p.role_name = row.role_name
            THEN LET p == CHOOSE p \in pending :
                              p.op = "update" /\ p.role_name = row.role_name
                 IN  [row EXCEPT !.embedding = p.embedding,
                                 !.category = p.category,
                                 !.created_at = p.created_at]
            ELSE row
    IN  {updated(row) : row \in st}
        \cup {Row(p.id, p.role_name, p.category, p.embedding, p.created_at) :
                 p \in {w \in pending : w.op = "insert"}}

\* the next role goes to the embedding model without a lookup
NextPc_encode(r) == IF run[r].i < Len(kb) THEN "encode" ELSE "commit"

\* after role i: the next role, or the commit after the last one
NextPc(r) == IF run[r].i < Len(kb) THEN "select" ELSE "commit"

\* lines 78-83: the call starts; an empty catalogue returns before connecting
EmbedStart(r) ==
    /\ run[r].pc = "idle"
    /\ calls < MaxCalls
    /\ calls' = calls + 1
    /\ run' = [run EXCEPT ![r] =
          IF Len(kb) = 0
          THEN [IdleRun EXCEPT !.pc = "done", !.call = calls + 1,
                               !.message = "No roles found in knowledge base"]
          ELSE [IdleRun EXCEPT
                   !.pc = "connect", !.call = calls + 1,
                   !.after_success =
                       \E q \in RunIds : run[q].pc = "done" /\ run[q].success,
                   !.rows_at_start = Cardinality(store)]]
    /\ UNCHANGED <<kb, store, res>>

\* lines 85-89: conn = self._get_db_connection(); cursor; the two counters
Connect(r) ==
    /\ run[r].pc = "connect"
    /\ run' = [run EXCEPT ![r].pc = "select", ![r].i = 1, ![r].conn = "open"]
    /\ UNCHANGED <<kb, store, calls, res>>

\* lines 91-102: the existence check of role i
SelectRole(r) ==
    /\ run[r].pc = "select"
    /\ LET name == kb[run[r].i].role_name
           hit == RowExists(r, name)
       IN  run' = [run EXCEPT
              ![r].looked = Append(@, [name |-> name, found |-> hit]),
              ![r].skipped_count = IF hit THEN @ + 1 ELSE @,
              ![r].pc = IF hit THEN NextPc(r) ELSE "encode",
              ![r].i = IF hit THEN @ + 1 ELSE @]
    /\ UNCHANGED <<kb, store, calls, res>>

\* lines 104-109: the embedding text and self.model.encode(embedding_text)
EncodeRole(r) ==
    /\ run[r].pc = "encode"
    /\ run' = [run EXCEPT ![r].encoded = Append(@, kb[run[r].i].role_name),
                          ![r].pc = "upsert"]
    /\ UNCHANGED <<kb, store, calls, res>>

\* lines 111-121: the upsert of role i, then embedded_count += 1
UpsertRole(r) ==
    /\ run[r].pc = "upsert"
    /\ Unlocked(r, kb[run[r].i].role_name)
    /\ run' = [run EXCEPT
          ![r].pending = @ \cup {UpsertWrite(r, run[r].i)},
          ![r].embedded_count = @ + 1,
          ![r].pc = NextPc(r),
          ![r].i = @ + 1]
    /\ UNCHANGED <<kb, store, calls, res>>

\* lines 123-129: commit, close, return (True, "Embedded n roles (skipped m existing)")
Commit(r) ==
    /\ run[r].pc = "commit"
    /\ store' = ApplyPending(store, run[r].pending)
    /\ run' = [run EXCEPT ![r].pc = "done", ![r].pending = {},
                          ![r].conn = "closed", ![r].success = TRUE,
                          ![r].message = "Embedded"]
    /\ UNCHANGED <<kb, calls, res>>

\* what an exception leaves committed: the except clause neither commits nor
\* rolls back, so the table is as it was
StoreAfterRaise_partial(r) == ApplyPending(store, run[r].pending)

StoreAfterRaise(r) == store

\* lines 131-133: any statement of the try block raises (connection refused,
\* a failed SELECT or upsert, the model failing to encode, a failed commit);
\* the except clause returns (False, "Error: ...") and closes nothing; an
\* exception the clause does not catch leaves the call ("raised")
Raise(r) ==
    /\ run[r].pc \in {"connect", "select", "encode", "upsert", "commit"}
    /\ store' = StoreAfterRaise(r)
    /\ run' = [run EXCEPT
          ![r].pc = IF Caught(ExcOf(run[r].pc)) THEN "failed" ELSE "raised",
          ![r].failed_at = run[r].pc,
          ![r].success = FALSE,
          ![r].message = IF Caught(ExcOf(run[r].pc)) THEN "Error" ELSE ""]
    /\ UNCHANGED <<kb, calls, res>>

\* closing the session commits what the call had written
ReleaseConn_commit(r) ==
    /\ run[r].pc = "failed"
    /\ run[r].conn = "open"
    /\ store' = ApplyPending(store, run[r].pending)
    /\ run' = [run EXCEPT ![r].conn = "closed", ![r].pending = {}]
    /\ UNCHANGED <<kb, calls, res>>

\* the connection object of a failed call is unreachable once the call has
\* returned; when the interpreter frees it, libpq closes the session and the
\* server rolls the open transaction back
ReleaseConn(r) ==
    /\ run[r].pc = "failed"
    /\ run[r].conn = "open"
    /\ run' = [run EXCEPT ![r].conn = "closed", ![r].pending = {}]
    /\ UNCHANGED <<kb, store, calls, res>>

\* the caller has the result (main.py, build_role_embeddings); the engine can
\* serve the next embed_roles() call
Return(r) ==
    /\ run[r].pc \in {"done", "failed"}
    /\ run[r].conn # "open"
    /\ run' = [run EXCEPT ![r] = IdleRun]
    /\ UNCHANGED <<kb, store, calls, res>>

Next ==
    \E r \in RunIds :
        \/ EmbedStart(r)
        \/ Connect(r)
        \/ SelectRole(r)
        \/ EncodeRole(r)
        \/ UpsertRole(r)
        \/ Commit(r)
        \/ Raise(r)
        \/ ReleaseConn(r)
        \/ Return(r)

Spec == Init /\ [][Next]_vars

\* ------------------------------------------------ read-only operations
\* list(a_set): Python iterates a set of str in an order fixed by the
\* process's string-hash seed and the set's history, not by its content.
\* A seed picks the order: a rotation of the elements, reversed for odd seeds.
HashSeeds == 0..3

RECURSIVE SomeOrder(_)
SomeOrder(S) ==
    IF S = {} THEN << >>
    ELSE LET x == CHOOSE x \in S : TRUE IN <<x>> \o SomeOrder(S \ {x})

Reverse(seq) == [k \in 1..Len(seq) |-> seq[Len(seq) + 1 - k]]

Rotate(seq, n) ==
    [k \in 1..Len(seq) |-> seq[((k - 1 + n) % Len(seq)) + 1]]

ListOfSet(S, seed) ==
    LET turned == Rotate(SomeOrder(S), seed)
    IN  IF seed % 2 = 1 THEN Reverse(turned) ELSE turned

\* _get_role_details (lines 274-280): the position of the first role with
\* exactly this role_name, 0 for None
GetRoleDetails_first(role_name) == IF Len(kb) > 0 THEN 1 ELSE 0

GetRoleDetails(role_name) ==
    LET hits == {k \in 1..Len(kb) : kb[k].role_name = role_name}
    IN  IF hits = {} THEN 0 ELSE SetMin(hits)

\* s.lower().strip() over a list of skills
NormalizeAll_raw(skills) == skills

NormalizeAll(skills) == [k \in 1..Len(skills) |-> Normalize(skills[k])]

\* missing[:10]
CapMissing_none(missing) == missing

CapMissing(missing) == Take(missing, MissingCap)

\* list(all_role_skills & candidate_skill_set)
Matching_candidates(all_role_skills, candidate_skill_set, seed) ==
    ListOfSet(candidate_skill_set, seed)

Matching(all_role_skills, candidate_skill_set, seed) ==
    ListOfSet(all_role_skills \cap candidate_skill_set, seed)

\* _calculate_skill_overlap (lines 282-302)
CalculateSkillOverlap(candidate_skills, role_details, seed) ==
    LET candidate_skills_lower == NormalizeAll(candidate_skills)
        role_core == NormalizeAll(role_details.core_skills)
        role_advanced == NormalizeAll(role_details.advanced_skills)
        role_tools == NormalizeAll(role_details.tools_and_technologies)
        all_role_skills == Elems(role_core \o role_advanced \o role_tools)
        candidate_skill_set == Elems(candidate_skills_lower)
        matching == Matching(all_role_skills, candidate_skill_set, seed)
        missing == ListOfSet(all_role_skills \ candidate_skill_set, seed)
    IN  [matching_skills |-> matching, missing_skills |-> CapMissing(missing)]

\* n / d rounded to the nearest integer, an exact half to the even neighbour
RoundHalfEven(n, d) ==
    LET q == n \div d
        twice == 2 * (n % d)
    IN  IF twice < d THEN q
        ELSE IF twice > d THEN q + 1
        ELSE IF q % 2 = 0 THEN q ELSE q + 1

\* months = round(weeks / 8, 1)
EstimateLearningTime_eighths(core, advanced, tools) ==
    LET weeks10 == (core * 20) + (advanced * 10) + (tools * 4)
    IN  IF weeks10 < 40
        THEN {[unit |-> "weeks", value |-> weeks10 \div 10]}
        ELSE {[unit |-> "months", tenths |-> RoundHalfEven(weeks10, 8)]}

\* round(weeks) weeks
EstimateLearningTime_nearest(core, advanced, tools) ==
    LET weeks10 == (core * 20) + (advanced * 10) + (tools * 4)
    IN  IF weeks10 < 40
        THEN {[unit |-> "weeks", value |-> RoundHalfEven(weeks10, 10)]}
        ELSE {[unit |-> "months", tenths |-> RoundHalfEven(weeks10, 4)]}

\* _estimate_learning_time (lines 359-370), on the three gap counts. Weeks
\* are counted in tenths (20, 10 and 4 per gap). Under 4 weeks the result is
\* int(weeks) weeks. Otherwise it is round(weeks / 4, 1) months, in tenths of
\* a month: the nearest tenth, and where weeks / 4 lies exactly between two
\* tenths the binary float lies on either side of it (5.0 / 4 gives 1.2,
\* 5.4 / 4 gives 1.4), so both neighbours are outcomes.
EstimateLearningTime(core, advanced, tools) ==
    LET weeks10 == (core * 20) + (advanced * 10) + (tools * 4)
    IN  IF weeks10 < 40
        THEN {[unit |-> "weeks", value |-> weeks10 \div 10]}
        ELSE IF weeks10 % 4 = 2
             THEN {[unit |-> "months", tenths |-> weeks10 \div 4],
                   [unit |-> "months", tenths |-> (weeks10 \div 4) + 1]}
             ELSE {[unit |-> "months", tenths |-> RoundHalfEven(weeks10, 4)]}

\* [s for s in tier if s.lower() in [m.lower() for m in overlap['missing_skills']]]
Gaps_exact(tier, missing_skills) ==
    SelectSeq(tier, LAMBDA s : s \in Elems(missing_skills))

Gaps(tier, missing_skills) ==
    LET missing_lower == {Lower(m) : m \in Elems(missing_skills)}
    IN  SelectSeq(tier, LAMBDA s : Lower(s) \in missing_lower)

\* suggest_upskilling (lines 304-357): the set of results it may return
SuggestUpskilling(current_skills, target_role, seed) ==
    LET k == GetRoleDetails(target_role) IN
    IF k = 0
    THEN {[status |-> "error", message |-> "Role not found in knowledge base"]}
    ELSE LET role_details == kb[k]
             overlap == CalculateSkillOverlap(current_skills, role_details, seed)
             core_gaps == Gaps(role_details.core_skills, overlap.missing_skills)
             advanced_gaps ==
                 Gaps(role_details.advanced_skills, overlap.missing_skills)
             tool_gaps ==
                 Gaps(role_details.tools_and_technologies, overlap.missing_skills)
         IN  {[status |-> "success",
               target_role |-> target_role,
               current_skill_count |-> Len(current_skills),
               matching_skills |-> overlap.matching_skills,
               skill_gaps |-> [core_skills |-> core_gaps,
                               advanced_skills |-> advanced_gaps,
                               tools_and_technologies |-> tool_gaps],
               priority_learning |-> Take(core_gaps, PriorityCap),
               estimated_learning_time |-> time,
               role_info |-> [summary |-> role_details.role_summary]] :
                 time \in EstimateLearningTime(Len(core_gaps), Len(advanced_gaps),
                                               Len(tool_gaps))}

\* the cosine distance 1.0, in the unit distances are counted in (1e-5)
UnitDistance == 100000

\* cosine distances (embedding <=> query) the index may report for a row:
\* two that round to the same score, and one beyond 1.0
DistVals == {4996, 5004, 150000}

\* top_k values a caller passes: the smallest, one below the number of rows,
\* the default, and the largest the service admits
TopKs == {1, 2, 5, MaxTopK}

\* round(result['similarity_score'] * 100, 2), in hundredths of a percent,
\* with similarity_score = 1 - distance
MatchScore_distance(distance) == RoundHalfEven(distance, 10)

\* the score cut to the range 0..100
MatchScore_clamped(distance) ==
    LET score == RoundHalfEven(UnitDistance - distance, 10)
    IN  IF score < 0 THEN 0 ELSE IF score > 10000 THEN 10000 ELSE score

MatchScore(distance) == RoundHalfEven(UnitDistance - distance, 10)

\* cosine distances from 0 to 2 (pgvector's <=> for any two vectors): the
\* multiples of 0.1 and the distances within MaxNear units of one
ScoreDistances ==
    {d \in 0..(2 * UnitDistance) :
        d % 10000 <= MaxNear \/ d % 10000 >= 10000 - MaxNear}

\* ORDER BY embedding <=> query: the orders of the rows with distance
\* ascending (rows at the same distance in either order)
RECURSIVE OrderByDistance(_, _)
OrderByDistance(rows, dist) ==
    IF rows = {} THEN {<< >>}
    ELSE LET nearest == {x \in rows : \A y \in rows : dist[x] <= dist[y]}
         IN  UNION {{<<x>> \o rest : rest \in OrderByDistance(rows \ {x}, dist)} :
                       x \in nearest}

\* no LIMIT
Limit_all(rows, top_k) == rows

\* LIMIT top_k
Limit(rows, top_k) == Take(rows, top_k)

\* lines 185-195: what cursor.fetchall() may return, each row with its
\* distance to the query
QueryResults(top_k) ==
    UNION {{Limit([k \in 1..Len(rows) |->
                      [role_name |-> rows[k].role_name,
                       category |-> rows[k].category,
                       distance |-> dist[rows[k]]]], top_k) :
               rows \in OrderByDistance(store, dist)} :
              dist \in [store -> DistVals]}

\* lines 199-207: the results converted to matches, in the results' order
ToMatches(results) ==
    [k \in 1..Len(results) |->
        [role_name |-> results[k].role_name,
         category |-> results[k].category,
         match_score |-> MatchScore(results[k].distance)]]

\* `not candidate_skills` (line 174)
NoSkills_never(candidate_skills) == FALSE

NoSkills(candidate_skills) == candidate_skills = << >>

\* match_skills (lines 162-213): the outcomes of one call. An exception in
\* encode, in the connection or in the query is caught and gives []; after a
\* failed query nothing has closed the connection. `raised` says that the
\* exception left the call instead.
MatchSkills(candidate_skills, top_k) ==
    IF NoSkills(candidate_skills)
    THEN {[matches |-> << >>, results |-> << >>, failed |-> "none",
           conn |-> "none", raised |-> FALSE]}
    ELSE {[matches |-> << >>, results |-> << >>, failed |-> "encode",
           conn |-> "none", raised |-> ~Caught(ExcOf("encode"))],
          [matches |-> << >>, results |-> << >>, failed |-> "connect",
           conn |-> "none", raised |-> ~Caught(ExcOf("connect"))],
          [matches |-> << >>, results |-> << >>, failed |-> "query",
           conn |-> "open", raised |-> ~Caught(ExcOf("query"))]}
         \cup {[matches |-> ToMatches(results), results |-> results,
                failed |-> "none", conn |-> "closed", raised |-> FALSE] :
                  results \in QueryResults(top_k)}

\* extracted resume data a caller may pass: with a skill list, or without
\* the 'skills' key
ExtractedData == {[skills |-> c] : c \in CandLists} \cup {[name |-> "n"]}

\* the matches taken last to first
Recommendations_reversed(matches, skills, seed) ==
    LET kept == SelectSeq(Reverse(matches),
                          LAMBDA m : GetRoleDetails(m.role_name) # 0)
    IN  [k \in 1..Len(kept) |->
            LET role_details == kb[GetRoleDetails(kept[k].role_name)]
                overlap == CalculateSkillOverlap(skills, role_details, seed)
            IN  [role_name |-> kept[k].role_name,
                 category |-> kept[k].category,
                 match_score |-> kept[k].match_score,
                 matching_skills |-> overlap.matching_skills,
                 missing_skills |-> overlap.missing_skills,
                 role_summary |-> role_details.role_summary,
                 career_progression |-> role_details.career_progression]]

\* lines 240-258: the matches whose role the catalogue holds, each enriched
Recommendations(matches, skills, seed) ==
    LET kept == SelectSeq(matches, LAMBDA m : GetRoleDetails(m.role_name) # 0)
    IN  [k \in 1..Len(kept) |->
            LET role_details == kb[GetRoleDetails(kept[k].role_name)]
                overlap == CalculateSkillOverlap(skills, role_details, seed)
            IN  [role_name |-> kept[k].role_name,
                 category |-> kept[k].category,
                 match_score |-> kept[k].match_score,
                 matching_skills |-> overlap.matching_skills,
                 missing_skills |-> overlap.missing_skills,
                 role_summary |-> role_details.role_summary,
                 career_progression |-> role_details.career_progression]]

\* recommend_roles without the `if not skills` return
RecommendRoles_unchecked(extracted_data, top_k, seed) ==
    LET skills == IF "skills" \in DOMAIN extracted_data
                  THEN extracted_data.skills ELSE << >>
    IN  {[out |-> LET recommendations ==
                          Recommendations(m.matches, skills, seed)
                  IN  [status |-> "success",
                       total_recommendations |-> Len(recommendations),
                       recommendations |-> recommendations],
          matcher_called |-> TRUE,
          raised |-> m.raised /\ ~Caught(ExcOf(m.failed)),
          matched |-> m] : m \in MatchSkills(skills, top_k)}

\* recommend_roles (lines 215-272): the outcomes of one call. An exception
\* that comes out of match_skills meets the handler of lines 266-272, which
\* returns the status-flagged record; `raised` says that it left the call.
RecommendRoles(extracted_data, top_k, seed) ==
    LET skills == IF "skills" \in DOMAIN extracted_data
                  THEN extracted_data.skills ELSE << >>
    IN  IF skills = << >>
        THEN {[out |-> [status |-> "error",
                        message |-> "No skills found in resume",
                        recommendations |-> << >>],
               matcher_called |-> FALSE,
               raised |-> FALSE,
               matched |-> [matches |-> << >>, results |-> << >>,
                            failed |-> "none", conn |-> "none",
                            raised |-> FALSE]]}
        ELSE {[out |-> LET recommendations ==
                               Recommendations(m.matches, skills, seed)
                       IN  IF m.raised
                           THEN [status |-> "error", message |-> "Error",
                                 recommendations |-> << >>]
                           ELSE [status |-> "success",
                                 total_recommendations |-> Len(recommendations),
                                 recommendations |-> recommendations],
               matcher_called |-> TRUE,
               raised |-> m.raised /\ ~Caught(ExcOf(m.failed)),
               matched |-> m] : m \in MatchSkills(skills, top_k)}

\* the progression delimiter, one character (U+2192)
Arrow == "->"

\* progression.split(Arrow)
RECURSIVE Split(_, _)
Split(s, sep) ==
    LET at == {k \in 1..Len(s) : s[k] = sep}
    IN  IF at = {} THEN <<s>>
        ELSE <<SubSeq(s, 1, SetMin(at) - 1)>>
             \o Split(SubSeq(s, SetMin(at) + 1, Len(s)), sep)

\* the parts neither trimmed nor filtered
NextRoles_raw(progression) ==
    IF \E k \in 1..Len(progression) : progression[k] = Arrow
    THEN Split(progression, Arrow)
    ELSE IF progression # << >> THEN <<progression>> ELSE << >>

\* lines 400-406: the next-role names of a career_progression string
NextRoles(progression) ==
    IF \E k \in 1..Len(progression) : progression[k] = Arrow
    THEN LET parts == Split(progression, Arrow)
         IN  SelectSeq([k \in 1..Len(parts) |-> Strip(parts[k])],
                       LAMBDA part : part # << >>)
    ELSE IF progression # << >> THEN <<progression>> ELSE << >>

\* current_role = None
None == <<"None">>

\* overlap['missing_skills'] whole
SkillsNeeded_all(missing_skills) == missing_skills

\* overlap['missing_skills'][:5] (line 416)
SkillsNeeded(missing_skills) == Take(missing_skills, PriorityCap)

\* get_career_progression (lines 372-432): the outcomes of one call. An
\* exception that comes out of match_skills meets the handler of lines
\* 428-432; `raised` says that it left the call.
GetCareerProgression(current_role, current_skills, seed) ==
    LET direct == GetRoleDetails(current_role)
        fallbacks ==
            IF direct # 0
            THEN {[matches |-> << >>, results |-> << >>, failed |-> "none",
                   conn |-> "none", raised |-> FALSE]}
            ELSE MatchSkills(current_skills, 1)
        resolved(m) ==
            IF direct # 0 THEN direct
            ELSE IF m.matches # << >>
                 THEN GetRoleDetails(m.matches[1].role_name) ELSE 0
        plan(k) ==
            LET progression == kb[k].career_progression
                next_roles == NextRoles(progression)
                known == SelectSeq(next_roles,
                                   LAMBDA name : GetRoleDetails(name) # 0)
            IN  [status |-> "success",
                 current_role |-> current_role,
                 progression_path |-> progression,
                 next_steps |->
                     [j \in 1..Len(known) |->
                         LET next_role_details == kb[GetRoleDetails(known[j])]
                             overlap == CalculateSkillOverlap(
                                            current_skills, next_role_details, seed)
                         IN  [role_name |-> known[j],
                              skills_needed |->
                                  SkillsNeeded(overlap.missing_skills)]]]
    IN  {[out |-> IF m.raised
                  THEN [status |-> "error", message |-> "Error"]
                  ELSE IF resolved(m) = 0
                  THEN [status |-> "error",
                        message |-> "Could not determine current role"]
                  ELSE plan(resolved(m)),
          matcher_called |-> direct = 0,
          raised |-> m.raised /\ ~Caught(ExcOf(m.failed)),
          resolved |-> resolved(m),
          matched |-> m] : m \in fallbacks}

\* target roles a caller may name: the catalogue's, one in another casing,
\* and two the catalogue does not hold
TargetRoles ==
    {RoleDA.role_name, RoleBI.role_name, RolePD.role_name, RoleQA.role_name,
     <<"d","a">>, GhostName, << >>}

\* code points, ascending, of the characters in use
CharOrder == <<Space>> \o UpperChars \o LowerChars \o <<Arrow>>

CharRank(c) == CHOOSE k \in 1..Len(CharOrder) : CharOrder[k] = c

\* a < b for two str: at the first position where they differ, the smaller
\* code point, or the shorter one when it is a prefix of the other
StrLess(a, b) ==
    \E k \in 1..(Len(b)) :
        /\ \A j \in 1..(k - 1) : j <= Len(a) /\ a[j] = b[j]
        /\ \/ k = Len(a) + 1
           \/ k <= Len(a) /\ CharRank(a[k]) < CharRank(b[k])

\* sorted(list(a_set))
RECURSIVE Sorted(_)
Sorted(S) ==
    IF S = {} THEN << >>
    ELSE LET least == CHOOSE x \in S : \A y \in S \ {x} : StrLess(x, y)
         IN  <<least>> \o Sorted(S \ {least})

\* get_all_roles (lines 434-442); the catalogue's roles carry no
\* experience_level, r.get gives None
GetAllRoles ==
    [k \in 1..Len(kb) |->
        [role_name |-> kb[k].role_name,
         category |-> kb[k].category,
         experience_level |-> None,
         role_summary |-> kb[k].role_summary]]

\* get_all_skills (lines 444-460)
GetAllSkills ==
    LET all_core == UNION {Elems(kb[k].core_skills) : k \in 1..Len(kb)}
        all_advanced == UNION {Elems(kb[k].advanced_skills) : k \in 1..Len(kb)}
        all_tools ==
            UNION {Elems(kb[k].tools_and_technologies) : k \in 1..Len(kb)}
    IN  [core_skills |-> Sorted(all_core),
         advanced_skills |-> Sorted(all_advanced),
         tools_and_technologies |-> Sorted(all_tools)]

\* a call of get_all_roles
AllRolesCall ==
    /\ res = NoCall
    /\ res' = [op |-> "get_all_roles", out |-> GetAllRoles]
    /\ UNCHANGED <<kb, store, run, calls>>

\* a call of get_all_skills
AllSkillsCall ==
    /\ res = NoCall
    /\ res' = [op |-> "get_all_skills", out |-> GetAllSkills]
    /\ UNCHANGED <<kb, store, run, calls>>

\* the table after match_skills: its connection runs one SELECT and is
\* closed without a commit (lines 181-197), so no row changes
StoreAfterMatch_truncated(st) == {}

StoreAfterMatch(st) == st

\* lines 199-202 of match_skills on one row of the query's result
ScoreCall ==
    /\ res = NoCall
    /\ \E distance \in ScoreDistances :
        res' = [op |-> "match_percentage", distance |-> distance,
                out |-> MatchScore(distance)]
    /\ UNCHANGED <<kb, store, run, calls>>

\* a call of match_skills
MatchCall ==
    /\ res = NoCall
    /\ \E candidate_skills \in CandLists, top_k \in TopKs :
        \E m \in MatchSkills(candidate_skills, top_k) :
            /\ res' = [op |-> "match_skills",
                       candidate_skills |-> candidate_skills,
                       top_k |-> top_k,
                       matched |-> m,
                       raised |-> m.raised,
                       out |-> m.matches]
    /\ store' = StoreAfterMatch(store)
    /\ UNCHANGED <<kb, run, calls>>

\* a call of recommend_roles
RecommendCall ==
    /\ res = NoCall
    /\ \E extracted_data \in ExtractedData, top_k \in TopKs, seed \in HashSeeds :
        \E o \in RecommendRoles(extracted_data, top_k, seed) :
            /\ res' = [op |-> "recommend_roles",
                       extracted_data |-> extracted_data,
                       top_k |-> top_k,
                       matcher_called |-> o.matcher_called,
                       matched |-> o.matched,
                       raised |-> o.raised,
                       out |-> o.out]
    /\ store' = StoreAfterMatch(store)
    /\ UNCHANGED <<kb, run, calls>>

\* a call of get_career_progression
ProgressionCall ==
    /\ res = NoCall
    /\ \E current_role \in TargetRoles \cup {None}, current_skills \in CandLists,
          seed \in HashSeeds :
        \E o \in GetCareerProgression(current_role, current_skills, seed) :
            /\ res' = [op |-> "get_career_progression",
                       current_role |-> current_role,
                       current_skills |-> current_skills,
                       seed |-> seed,
                       matcher_called |-> o.matcher_called,
                       resolved |-> o.resolved,
                       matched |-> o.matched,
                       raised |-> o.raised,
                       out |-> o.out]
    /\ store' = StoreAfterMatch(store)
    /\ UNCHANGED <<kb, run, calls>>

\* a call of _calculate_skill_overlap on a catalogue role (main.py calls it
\* with the role _get_role_details returned)
OverlapCall ==
    /\ res = NoCall
    /\ \E candidate_skills \in CandLists, k \in 1..Len(kb), seed \in HashSeeds :
        /\ res' = [op |-> "_calculate_skill_overlap",
                   candidate_skills |-> candidate_skills,
                   role |-> k,
                   out |-> CalculateSkillOverlap(candidate_skills, kb[k], seed)]
    /\ UNCHANGED <<kb, store, run, calls>>

\* a call of suggest_upskilling, which reaches neither the table nor the
\* embedding model: no storage or model exception can arise in it
UpskillingCall ==
    /\ res = NoCall
    /\ \E current_skills \in CandLists, target_role \in TargetRoles,
          seed \in HashSeeds :
        \E out \in SuggestUpskilling(current_skills, target_role, seed) :
            /\ res' = [op |-> "suggest_upskilling",
                       current_skills |-> current_skills,
                       target_role |-> target_role,
                       overlap |-> IF GetRoleDetails(target_role) = 0
                                   THEN [matching_skills |-> << >>,
                                         missing_skills |-> << >>]
                                   ELSE CalculateSkillOverlap(current_skills,
                                            kb[GetRoleDetails(target_role)], seed),
                       raised |-> FALSE,
                       out |-> out]
    /\ UNCHANGED <<kb, store, run, calls>>

\* career_progression strings: those of the catalogue, and every string of
\* at most MaxProg characters over two letters, the space and the delimiter
ProgChars == {"A", "B", Space, Arrow}

Progressions ==
    SeqsUpTo(ProgChars, MaxProg)
    \cup {KnowledgeBase[k].career_progression : k \in 1..Len(KnowledgeBase)}

\* lines 398-406 of get_career_progression on one career_progression string
ParseCall ==
    /\ res = NoCall
    /\ \E progression \in Progressions :
        res' = [op |-> "parse_progression", progression |-> progression,
                out |-> NextRoles(progression)]
    /\ UNCHANGED <<kb, store, run, calls>>

\* the three gap lists of one call, by their lengths
GapCounts == [core : 0..MaxGaps, advanced : 0..MaxGaps, tools : 0..MaxGaps]

Tiers == {"core", "advanced", "tools"}

\* a call of _estimate_learning_time on three gap lists, and a call on the
\* same lists with one more gap in one of them
EstimateCall ==
    /\ res = NoCall
    /\ \E gaps \in GapCounts, tier \in Tiers :
        LET grown == [gaps EXCEPT ![tier] = @ + 1] IN
        \E out \in EstimateLearningTime(gaps.core, gaps.advanced, gaps.tools),
           out_grown \in EstimateLearningTime(grown.core, grown.advanced,
                                              grown.tools) :
            res' = [op |-> "_estimate_learning_time",
                    gaps |-> gaps, out |-> out,
                    grown |-> grown, out_grown |-> out_grown]
    /\ UNCHANGED <<kb, store, run, calls>>

\* the caller has the result; the engine serves the next call
QueryReturn ==
    /\ res # NoCall
    /\ res' = NoCall
    /\ UNCHANGED <<kb, store, run, calls>>

NextQuery ==
    \/ MatchCall
    \/ RecommendCall
    \/ ProgressionCall
    \/ OverlapCall
    \/ UpskillingCall
    \/ AllRolesCall
    \/ AllSkillsCall
    \/ ScoreCall
    \/ QueryReturn

SpecQuery == Init /\ [][NextQuery]_vars

\* the whole engine: read-only calls on the table as the process found it,
\* then indexing calls. The tables indexing leaves behind are among the
\* initial ones, so the read-only calls meet them too.
NextEngine ==
    \/ calls = 0 /\ NextQuery
    \/ res = NoCall /\ Next

SpecEngine == Init /\ [][NextEngine]_vars

\* the estimator alone, over all gap counts up to MaxGaps
NextEstimate ==
    \/ EstimateCall
    \/ QueryReturn

SpecEstimate == Init /\ [][NextEstimate]_vars

\* the progression parser alone, over strings of up to MaxProg characters
NextParse ==
    \/ ParseCall
    \/ QueryReturn

SpecParse == Init /\ [][NextParse]_vars

\* ------------------------------------------- the service (backend/main.py)
\* top_k values a request may carry: the default, the ends of the valid range
\* and the values next to them
RequestTopKs == {0, 1, 5, MaxTopK, MaxTopK + 1}

\* doc_db.get_extracted_info(resume_id) for the resume ids in use: no row, a
\* row without extracted information, and rows with skills and experience
Resumes ==
    << [found |-> FALSE],
       [found |-> TRUE, extracted_info |-> << >>],
       [found |-> TRUE,
        extracted_info |-> [skills |-> << <<"P","y">>, <<"s","q","l">> >>,
                            experience |-> << >>]],
       [found |-> TRUE,
        extracted_info |-> [skills |-> << <<"P","y">> >>,
                            experience |-> << [title |-> RoleDA.role_name] >>]],
       [found |-> TRUE,
        extracted_info |-> [skills |-> << <<"s","q","l">> >>,
                            experience |-> << [title |-> <<"C","T","O">>] >>]],
       [found |-> TRUE,
        extracted_info |-> [experience |-> << [company |-> "c"] >>]] >>

\* not result or not result.get('extracted_info')
NoExtractedInfo(result) == ~result.found \/ result.extracted_info = << >>

\* extracted_data.get('skills', [])
SkillsOf(extracted_data) ==
    IF "skills" \in DOMAIN extracted_data THEN extracted_data.skills ELSE << >>

\* SkillMatchRequest.validate_skills (lines 835-840)
ValidateSkills(v) == v # << >>

\* SkillMatchRequest.validate_top_k (lines 842-847)
ValidateTopK(v) == ~(v < 1 \/ v > MaxTopK)

\* the response of HTTPException(status_code, detail), and of a request the
\* request model rejects (422)
HttpError(code) == [code |-> code]

\* POST /api/match-skills (lines 875-908). `queries` lists the top_k of each
\* match_skills call the request led to.
MatchSkillsEndpoint ==
    /\ res = NoCall
    /\ \E skills \in CandLists, top_k \in RequestTopKs :
        IF ~(ValidateSkills(skills) /\ ValidateTopK(top_k))
        THEN res' = [op |-> "POST /api/match-skills", top_k |-> top_k,
                     queries |-> << >>, response |-> HttpError(422)]
        ELSE \E m \in MatchSkills(skills, top_k) :
                 res' = [op |-> "POST /api/match-skills", top_k |-> top_k,
                         queries |-> <<top_k>>,
                         response |->
                             [code |-> 200, status |-> "success",
                              input_skills |-> skills,
                              matches_found |-> Len(m.matches),
                              matches |-> m.matches]]
    /\ store' = StoreAfterMatch(store)
    /\ UNCHANGED <<kb, run, calls>>

\* POST /api/recommend-roles/{resume_id} (lines 911-970): top_k: int = 5 is a
\* query parameter without a validator. `saved` is the row the handler
\* upserts into skill_recommendations.
RecommendRolesEndpoint ==
    /\ res = NoCall
    /\ \E resume_id \in 1..Len(Resumes), top_k \in RequestTopKs,
          seed \in HashSeeds :
        LET result == Resumes[resume_id] IN
        IF NoExtractedInfo(result)
        THEN res' = [op |-> "POST /api/recommend-roles", top_k |-> top_k,
                     queries |-> << >>, response |-> HttpError(404)]
        ELSE \E o \in RecommendRoles(result.extracted_info, top_k, seed) :
                 res' = [op |-> "POST /api/recommend-roles", top_k |-> top_k,
                         queries |-> IF o.matcher_called
                                     THEN <<top_k>> ELSE << >>,
                         saved |-> [resume_id |-> resume_id,
                                    recommended_roles |-> o.out],
                         response |-> [code |-> 200, resume_id |-> resume_id,
                                       body |-> o.out]]
    /\ store' = StoreAfterMatch(store)
    /\ UNCHANGED <<kb, run, calls>>

\* experience[0].get('title', '') of the most recent job, None without one
TitleOf(extracted_data) ==
    IF "experience" \in DOMAIN extracted_data
       /\ extracted_data.experience # << >>
    THEN IF "title" \in DOMAIN extracted_data.experience[1]
         THEN extracted_data.experience[1].title ELSE << >>
    ELSE None

\* POST /api/career-progression/{resume_id} (lines 1012-1070)
CareerProgressionEndpoint ==
    /\ res = NoCall
    /\ \E resume_id \in 1..Len(Resumes), seed \in HashSeeds :
        LET result == Resumes[resume_id] IN
        IF NoExtractedInfo(result)
        THEN res' = [op |-> "POST /api/career-progression",
                     queries |-> << >>, response |-> HttpError(404)]
        ELSE LET skills == SkillsOf(result.extracted_info)
                 title == TitleOf(result.extracted_info)
                 no_role == title = None \/ title = << >>
                 found == IF no_role THEN MatchSkills(skills, 1)
                          ELSE {[matches |-> << >>]}
             IN  \E m \in found :
                   LET current_role ==
                           IF no_role /\ m.matches # << >>
                           THEN m.matches[1].role_name ELSE title
                   IN  \E o \in GetCareerProgression(current_role, skills, seed) :
                         res' = [op |-> "POST /api/career-progression",
                                 queries |->
                                     (IF no_role THEN <<1>> ELSE << >>)
                                     \o (IF o.matcher_called
                                         THEN <<1>> ELSE << >>),
                                 response |-> [code |-> 200,
                                               resume_id |-> resume_id,
                                               body |-> o.out]]
    /\ store' = StoreAfterMatch(store)
    /\ UNCHANGED <<kb, run, calls>>

\* target_role query parameters of generate-course: the default "", a
\* catalogue role and a role the catalogue does not hold
CourseTargets == {<< >>, RoleDA.role_name, GhostName}

\* POST /api/generate-course/{resume_id} (lines 1158-1225).
\* generate_upskill_course is a call to a language model: it returns a
\* course or raises, and the handler answers 500.
GenerateCourseEndpoint ==
    /\ res = NoCall
    /\ \E resume_id \in 1..Len(Resumes), requested \in CourseTargets,
          seed \in HashSeeds :
        LET result == Resumes[resume_id] IN
        IF NoExtractedInfo(result)
        THEN res' = [op |-> "POST /api/generate-course",
                     queries |-> << >>, response |-> HttpError(404)]
        ELSE LET current_skills == SkillsOf(result.extracted_info)
                 found == IF requested = << >>
                          THEN MatchSkills(current_skills, 1)
                          ELSE {[matches |-> << >>]}
             IN  \E m \in found :
                   LET target_role ==
                           IF requested = << >> /\ m.matches # << >>
                           THEN m.matches[1].role_name ELSE requested
                       queries == IF requested = << >> THEN <<1>> ELSE << >>
                       k == GetRoleDetails(target_role)
                       missing_skills ==
                           IF k = 0 THEN << >>
                           ELSE CalculateSkillOverlap(current_skills, kb[k],
                                                      seed).missing_skills
                   IN  IF target_role = << >>
                       THEN res' = [op |-> "POST /api/generate-course",
                                    queries |-> queries,
                                    response |-> HttpError(400)]
                       ELSE \E code \in {200, 500} :
                              res' = [op |-> "POST /api/generate-course",
                                      queries |-> queries,
                                      response |->
                                          IF code = 500 THEN HttpError(500)
                                          ELSE [code |-> 200,
                                                status |-> "success",
                                                resume_id |-> resume_id,
                                                target_role |-> target_role,
                                                current_skills |-> current_skills,
                                                missing_skills |-> missing_skills]]
    /\ store' = StoreAfterMatch(store)
    /\ UNCHANGED <<kb, run, calls>>

\* the service's requests that reach the matcher
NextService ==
    \/ MatchSkillsEndpoint
    \/ RecommendRolesEndpoint
    \/ CareerProgressionEndpoint
    \/ GenerateCourseEndpoint
    \/ QueryReturn

SpecService == Init /\ [][NextService]_vars

\* ================================================================== claims
Succeeded(r) == run[r].pc = "done" /\ run[r].success

RowsOf(name) == {row \in store : row.role_name = name}

\* C1: a successful embed_roles() call that started after another call had
\* succeeded on the same catalogue embeds nothing, skips every role
\* (skipped_count = len(roles)), leaves the row count as it found it, and the
\* table holds exactly one row per catalogue role.
C1_ReindexIsNoOp ==
    \A r \in RunIds :
        (Succeeded(r) /\ run[r].after_success) =>
            /\ run[r].embedded_count = 0
            /\ run[r].encoded = << >>
            /\ run[r].skipped_count = Len(kb)
            /\ Cardinality(store) = run[r].rows_at_start
            /\ \A k \in 1..Len(kb) : Cardinality(RowsOf(kb[k].role_name)) = 1

\* a first call embedded the whole catalogue, and a second call, started
\* after it, has succeeded too
C1_Witness ==
    \E r, q \in RunIds :
        /\ r # q
        /\ Succeeded(q) /\ run[q].embedded_count = Len(kb) /\ Len(kb) > 0
        /\ Succeeded(r) /\ run[r].after_success /\ run[r].call > run[q].call

\* C2: whatever the interleaving of concurrent embed_roles() calls, the
\* committed table never holds two rows with the same role_name, and as soon
\* as a call has committed (so also once all calls have finished) it holds
\* exactly one row for every catalogue role.
C2_OneRowPerRole ==
    /\ \A a, b \in store : a.role_name = b.role_name => a = b
    /\ (\E r \in RunIds : Succeeded(r)) =>
           \A k \in 1..Len(kb) : Cardinality(RowsOf(kb[k].role_name)) = 1

\* two calls raced on one role: both found no row, both upserted it, and the
\* row the first inserted carries the second's update; both have finished
C2_Witness ==
    /\ \A r \in RunIds : Succeeded(r) /\ run[r].embedded_count > 0
    /\ \E row \in store : row.id[1] # 0 /\ row.created_at # row.id[1]

PerRoleSteps == {"select", "encode", "upsert"}

IsSorted(scores) == \A k \in 1..(Len(scores) - 1) : scores[k] >= scores[k + 1]

\* C4: a match_skills call with a non-empty skill list and top_k in 1..20
\* returns at most top_k matches, in the order of the index's result
\* (distance ascending), with match_score non-increasing.
C4_MatchesOrdered ==
    (res.op = "match_skills" /\ res.candidate_skills # << >>
        /\ res.top_k \in 1..MaxTopK) =>
        /\ Len(res.out) <= res.top_k
        /\ IsSorted([k \in 1..Len(res.out) |-> res.out[k].match_score])
        /\ Len(res.out) = Len(res.matched.results)
        /\ \A k \in 1..Len(res.out) :
               res.out[k].role_name = res.matched.results[k].role_name
        /\ IsSorted([k \in 1..Len(res.out) |-> 0 - res.matched.results[k].distance])

\* the table holds more than top_k rows, the call returned top_k >= 2 of
\* them, and their scores differ
C4_Witness ==
    /\ res.op = "match_skills" /\ res.candidate_skills # << >>
    /\ res.top_k >= 2 /\ Cardinality(store) > res.top_k
    /\ Len(res.out) = res.top_k
    /\ res.out[1].match_score > res.out[2].match_score

\* C5: a match_skills call with an empty skill list returns the empty
\* sequence, whatever top_k and the table are, with no failure on the way.
C5_EmptySkillsEmptyResult ==
    (res.op = "match_skills" /\ res.candidate_skills = << >>) =>
        /\ res.out = << >>
        /\ res.matched.failed = "none"

\* an empty skill list was matched against a table that holds rows
C5_Witness ==
    /\ res.op = "match_skills" /\ res.candidate_skills = << >>
    /\ Cardinality(store) >= 2 /\ res.top_k = 5

\* the skill tokens of role k, as the catalogue spells them
RoleTokens(k) ==
    Elems(kb[k].core_skills \o kb[k].advanced_skills
          \o kb[k].tools_and_technologies)

C7_MissingAtMostTen ==
    /\ res.op = "_calculate_skill_overlap" =>
           Len(res.out.missing_skills) <= MissingCap
    /\ res.op = "suggest_upskilling" =>
           Len(res.overlap.missing_skills) <= MissingCap
    /\ (res.op = "recommend_roles") =>
           \A k \in 1..Len(res.out.recommendations) :
               Len(res.out.recommendations[k].missing_skills) <= MissingCap
    /\ (res.op = "get_career_progression" /\ res.out.status = "success") =>
           \A k \in 1..Len(res.out.next_steps) :
               Len(res.out.next_steps[k].skills_needed) <= MissingCap

\* the role lacks more than 10 skills and the overlap returned 10 of them
C7_Witness ==
    /\ res.op = "_calculate_skill_overlap"
    /\ Cardinality({Normalize(s) : s \in RoleTokens(res.role)}
                   \ {Normalize(c) : c \in Elems(res.candidate_skills)}) > MissingCap
    /\ Len(res.out.missing_skills) = MissingCap

\* C8 as claimed: every entry of missing_skills is one of the role's skill
\* tokens as the catalogue spells it (original casing).
C8_MissingKeepsRoleCasing ==
    res.op = "_calculate_skill_overlap" =>
        \A m \in Elems(res.out.missing_skills) : m \in RoleTokens(res.role)

\* C8 amended: every entry of missing_skills is the lower-cased, trimmed form
\* of one of the role's skill tokens, and no candidate skill has that form.
C8_MissingIsNormalized ==
    res.op = "_calculate_skill_overlap" =>
        \A m \in Elems(res.out.missing_skills) :
            /\ \E s \in RoleTokens(res.role) : m = Normalize(s)
            /\ \A c \in Elems(res.candidate_skills) : Normalize(c) # m

\* a missing entry that is not spelled as any token of the role
C8_Witness ==
    /\ res.op = "_calculate_skill_overlap"
    /\ \E m \in Elems(res.out.missing_skills) : m \notin RoleTokens(res.role)

\* C9: suggest_upskilling with a target_role that is the role_name of no
\* catalogue role returns status 'error' with a message and nothing else: no
\* gap buckets, no priority list, no learning time.
C9_UnknownRoleIsError ==
    (res.op = "suggest_upskilling"
        /\ \A k \in 1..Len(kb) : kb[k].role_name # res.target_role) =>
        /\ res.out.status = "error"
        /\ DOMAIN res.out = {"status", "message"}

\* a non-empty catalogue was asked for a role name it holds only in another
\* casing, with skills given
C9_Witness ==
    /\ res.op = "suggest_upskilling"
    /\ Len(kb) > 0 /\ res.target_role = <<"d","a">>
    /\ res.current_skills # << >>
    /\ res.out.status = "error"

\* C10 as claimed: for every catalogue role, suggest_upskilling with no
\* candidate skills succeeds with no matching skill and with every core,
\* advanced and tools skill of the role in its gap bucket.
C10_AllRequiredReported ==
    (res.op = "suggest_upskilling" /\ res.current_skills = << >>
        /\ GetRoleDetails(res.target_role) # 0) =>
        LET role == kb[GetRoleDetails(res.target_role)]
        IN  /\ res.out.status = "success"
            /\ res.out.matching_skills = << >>
            /\ res.out.skill_gaps.core_skills = role.core_skills
            /\ res.out.skill_gaps.advanced_skills = role.advanced_skills
            /\ res.out.skill_gaps.tools_and_technologies
                   = role.tools_and_technologies

Smaller(a, b) == IF a < b THEN a ELSE b

\* C10 amended: for every catalogue role, suggest_upskilling with no
\* candidate skills succeeds with no matching skill; missing_skills holds
\* min(10, n) of the role's n distinct normalized skills, and each bucket
\* holds, in the tier's order, the tier's skills whose lower-cased form is
\* among them. So every required skill is reported when the role has at most
\* 10 distinct required skills and none carries surrounding whitespace.
C10_EmptyCandidateGaps ==
    (res.op = "suggest_upskilling" /\ res.current_skills = << >>
        /\ GetRoleDetails(res.target_role) # 0) =>
        LET k == GetRoleDetails(res.target_role)
            role == kb[k]
            required == {Normalize(s) : s \in RoleTokens(k)}
            missing == Elems(res.overlap.missing_skills)
            bucket(tier) == SelectSeq(tier, LAMBDA s : Lower(s) \in missing)
        IN  /\ res.out.status = "success"
            /\ res.out.matching_skills = << >>
            /\ missing \subseteq required
            /\ Cardinality(missing) = Smaller(MissingCap, Cardinality(required))
            /\ res.out.skill_gaps.core_skills = bucket(role.core_skills)
            /\ res.out.skill_gaps.advanced_skills = bucket(role.advanced_skills)
            /\ res.out.skill_gaps.tools_and_technologies
                   = bucket(role.tools_and_technologies)
            /\ (Cardinality(required) <= MissingCap
                  /\ \A s \in RoleTokens(k) : Strip(s) = s) =>
                   /\ res.out.skill_gaps.core_skills = role.core_skills
                   /\ res.out.skill_gaps.advanced_skills = role.advanced_skills
                   /\ res.out.skill_gaps.tools_and_technologies
                          = role.tools_and_technologies

\* the scenario role, asked with no skills: all five skills are reported
C10_Witness ==
    /\ res.op = "suggest_upskilling" /\ res.current_skills = << >>
    /\ res.target_role = RoleDA.role_name /\ Len(kb) > 0
    /\ res.out.status = "success"
    /\ res.out.skill_gaps.core_skills = RoleDA.core_skills
    /\ Len(res.overlap.missing_skills) = 5

\* the duration an estimate stands for, in tenths of a week: n weeks, or
\* m months counted as 4 * m weeks
Duration(estimate) ==
    IF estimate.unit = "weeks" THEN estimate.value * 10 ELSE estimate.tenths * 4

\* C11: the duration _estimate_learning_time's output stands for does not
\* decrease when one gap is added to the core, to the advanced or to the
\* tools list with the other two lists unchanged, also when the rendering
\* switches from weeks to months.
C11_EstimateMonotone ==
    res.op = "_estimate_learning_time" =>
        Duration(res.out) <= Duration(res.out_grown)

\* one more tool gap took the estimate from "3 weeks" to months
C11_Witness ==
    /\ res.op = "_estimate_learning_time"
    /\ res.grown.tools = res.gaps.tools + 1
    /\ res.out = [unit |-> "weeks", value |-> 3]
    /\ res.out_grown.unit = "months"

\* C12: with weeks = 2 c + a + 0.4 t, the estimate is floor(weeks) weeks when
\* weeks < 4 and otherwise weeks / 4 months rounded to one decimal (a tenth
\* of a month at most half a tenth away from weeks / 4); gaps (1, 1, 1) give
\* "3 weeks".
C12_EstimateFormula ==
    res.op = "_estimate_learning_time" =>
        LET weeks10 == 20 * res.gaps.core + 10 * res.gaps.advanced
                       + 4 * res.gaps.tools
        IN  /\ weeks10 < 40 =>
                   /\ res.out.unit = "weeks"
                   /\ 10 * res.out.value <= weeks10
                   /\ weeks10 < 10 * (res.out.value + 1)
            /\ weeks10 >= 40 =>
                   /\ res.out.unit = "months"
                   /\ 4 * res.out.tenths - weeks10 \in -2..2
            /\ res.gaps = [core |-> 1, advanced |-> 1, tools |-> 1] =>
                   res.out = [unit |-> "weeks", value |-> 3]

\* the estimate of 3.8 weeks (one core, one advanced, two tool gaps) is
\* "3 weeks"
C12_Witness ==
    /\ res.op = "_estimate_learning_time"
    /\ res.gaps = [core |-> 1, advanced |-> 1, tools |-> 2]
    /\ res.out = [unit |-> "weeks", value |-> 3]

\* C13: recommend_roles on extracted data whose skill list is empty or
\* absent returns status 'error' with the message 'No skills found in
\* resume' and no recommendations, and does not call match_skills.
C13_NoSkillsIsFlagged ==
    (res.op = "recommend_roles"
        /\ ("skills" \notin DOMAIN res.extracted_data
              \/ res.extracted_data.skills = << >>)) =>
        /\ res.out = [status |-> "error",
                      message |-> "No skills found in resume",
                      recommendations |-> << >>]
        /\ ~res.matcher_called

\* extracted data without a 'skills' key, recommended against an indexed table
C13_Witness ==
    /\ res.op = "recommend_roles"
    /\ "skills" \notin DOMAIN res.extracted_data
    /\ Cardinality(store) >= 2 /\ Len(kb) > 0
    /\ res.out.status = "error"

\* the role names of the catalogue
CatalogueNames == {kb[k].role_name : k \in 1..Len(kb)}

\* C14: the recommendations of recommend_roles are the matches whose
\* role_name the catalogue holds, in the matches' order, each with the
\* role_name, category and match_score of its match; matches of roles the
\* catalogue lacks are left out and the call still succeeds.
C14_RecommendationsFollowMatches ==
    (res.op = "recommend_roles" /\ res.matcher_called) =>
        LET present == SelectSeq(res.matched.matches,
                                 LAMBDA m : m.role_name \in CatalogueNames)
            given == res.out.recommendations
        IN  /\ res.out.status = "success"
            /\ Len(given) = Len(present)
            /\ res.out.total_recommendations = Len(present)
            /\ \A k \in 1..Len(given) :
                   /\ given[k].role_name = present[k].role_name
                   /\ given[k].category = present[k].category
                   /\ given[k].match_score = present[k].match_score

\* the index returned a role the catalogue lacks ahead of two roles it
\* holds, whose scores differ
C14_Witness ==
    /\ res.op = "recommend_roles" /\ res.matcher_called
    /\ Len(res.matched.matches) >= 3
    /\ res.matched.matches[1].role_name = GhostName
    /\ Len(res.out.recommendations) = Len(res.matched.matches) - 1
    /\ res.out.recommendations[1].match_score
           > res.out.recommendations[2].match_score

\* the catalogue's role with this name
RoleNamed(name) == kb[CHOOSE k \in 1..Len(kb) : kb[k].role_name = name]

\* C15: when current_role (None included) is the role_name of no catalogue
\* role, get_career_progression asks match_skills for one match (top_k = 1)
\* on current_skills and plans from that match's role; when there is no
\* match, or the matched role is not in the catalogue, it returns status
\* 'error' ("Could not determine current role") and no plan.
C15_FallbackToMatcher ==
    (res.op = "get_career_progression"
        /\ res.current_role \notin CatalogueNames) =>
        LET matches == res.matched.matches
        IN  /\ res.matcher_called
            /\ Len(matches) <= 1
            /\ IF matches = << >> \/ matches[1].role_name \notin CatalogueNames
               THEN res.out = [status |-> "error",
                               message |-> "Could not determine current role"]
               ELSE /\ res.out.status = "success"
                    /\ res.out.progression_path
                           = RoleNamed(matches[1].role_name).career_progression

\* current_role is None, the table holds several rows, and the plan is the
\* one of the single role the index returned
C15_Witness ==
    /\ res.op = "get_career_progression" /\ res.current_role = None
    /\ Cardinality(store) >= 2
    /\ Len(res.matched.matches) = 1
    /\ res.out.status = "success"
    /\ res.out.progression_path # << >>

\* the positions a segment of s starts after: 0 and every delimiter
SegmentStarts(s) == {0} \cup {k \in 1..Len(s) : s[k] = Arrow}

\* the segment of s after position a, up to the next delimiter or the end
SegmentAfter(s, a) ==
    LET ends == {k \in 1..Len(s) : s[k] = Arrow /\ k > a} \cup {Len(s) + 1}
    IN  SubSeq(s, a + 1, SetMin(ends) - 1)

\* the segments of s, left to right, each trimmed
TrimmedSegments(s) ==
    LET starts == SegmentStarts(s)
        nth(n) == CHOOSE a \in starts : Cardinality({b \in starts : b < a}) = n - 1
    IN  [n \in 1..Cardinality(starts) |-> Strip(SegmentAfter(s, nth(n)))]

\* C16: a career_progression string that contains the delimiter parses to
\* its segments between delimiters, trimmed, the empty ones dropped, left to
\* right ("DA -> BI -> CX" gives [DA, BI, CX]); a non-empty string without
\* the delimiter gives one next role, the whole field; the empty string
\* gives none.
C16_ProgressionParsing ==
    res.op = "parse_progression" =>
        LET s == res.progression
        IN  /\ (Arrow \in Elems(s)) =>
                   res.out = SelectSeq(TrimmedSegments(s), LAMBDA p : p # << >>)
            /\ (Arrow \notin Elems(s) /\ s # << >>) => res.out = <<s>>
            /\ s = << >> => res.out = << >>
            /\ s = RoleDA.career_progression =>
                   res.out = << <<"D","A">>, <<"B","I">>, <<"C","X">> >>

\* a string that starts with the delimiter and has a blank segment: the
\* four characters delimiter, space, delimiter, "B" parse to [B]
C16_Witness ==
    /\ res.op = "parse_progression"
    /\ res.progression = <<Arrow, Space, Arrow, "B">>
    /\ res.out = << <<"B">> >>

\* C17: in a successful plan, next_steps lists, in their parsed order, the
\* next-role names of the resolved role's career_progression that are
\* role_names of the catalogue (the others are left out and the call still
\* succeeds), and each step's skills_needed is the first 5 entries of that
\* role's missing_skills against current_skills.
C17_NextStepsResolved ==
    (res.op = "get_career_progression" /\ res.out.status = "success") =>
        LET names == NextRoles(kb[res.resolved].career_progression)
            known == SelectSeq(names, LAMBDA n : n \in CatalogueNames)
            steps == res.out.next_steps
        IN  /\ Len(steps) = Len(known)
            /\ \A j \in 1..Len(steps) :
                   LET missing == CalculateSkillOverlap(
                                      res.current_skills, RoleNamed(known[j]),
                                      res.seed).missing_skills
                   IN  /\ steps[j].role_name = known[j]
                       /\ Len(steps[j].skills_needed) <= 5
                       /\ steps[j].skills_needed
                              = SubSeq(missing, 1, Smaller(5, Len(missing)))

\* the plan of "DA -> BI -> CX": CX is in no catalogue and is left out, BI
\* lacks more than 5 skills and 5 are listed
C17_Witness ==
    /\ res.op = "get_career_progression" /\ res.out.status = "success"
    /\ res.current_role = RoleDA.role_name
    /\ Len(res.out.next_steps) = 2
    /\ res.out.next_steps[2].role_name = RoleBI.role_name
    /\ Len(res.out.next_steps[2].skills_needed) = 5
    /\ Len(res.out.next_steps[1].skills_needed) < 5

\* C18: a knowledge-base file that is absent, or present without a 'roles'
\* key, gives an engine with an empty catalogue, and on an empty catalogue
\* every catalogue-reading operation returns: get_all_roles an empty list,
\* get_all_skills three empty lists, suggest_upskilling the role-not-found
\* error, recommend_roles no recommendation.
C18_EmptyCatalogueServes ==
    /\ \A file \in KnowledgeBaseFiles :
           (~file.exists \/ "roles" \notin DOMAIN file.content) =>
               RolesOf(LoadKnowledgeBase(file)) = << >>
    /\ kb = << >> =>
           /\ res.op = "get_all_roles" => res.out = << >>
           /\ res.op = "get_all_skills" =>
                  res.out = [core_skills |-> << >>, advanced_skills |-> << >>,
                             tools_and_technologies |-> << >>]
           /\ res.op = "suggest_upskilling" =>
                  res.out = [status |-> "error",
                             message |-> "Role not found in knowledge base"]
           /\ res.op = "recommend_roles" =>
                  /\ res.out.recommendations = << >>
                  /\ res.out.status \in {"success", "error"}
                  /\ res.matcher_called =>
                         res.out = [status |-> "success",
                                    total_recommendations |-> 0,
                                    recommendations |-> << >>]

\* an engine with an empty catalogue beside a table that still holds a row:
\* recommend_roles got a match from the index and returned no recommendation
C18_Witness ==
    /\ kb = << >> /\ store # {}
    /\ res.op = "recommend_roles" /\ res.matcher_called
    /\ res.matched.matches # << >>
    /\ res.out.recommendations = << >>

\* the operations that reach the table or the embedding model, or are
\* named with them
EngineOps ==
    {"match_skills", "recommend_roles", "suggest_upskilling",
     "get_career_progression"}

\* C19: no storage or model exception leaves the engine: an embed_roles
\* call that met a failure at connect, select, encode, upsert or commit has
\* returned (False, "Error: ..."), and a match_skills, recommend_roles,
\* suggest_upskilling or get_career_progression call has returned a value
\* (a list, or a record with a status) whatever failed under it.
C19_NoExceptionEscapes ==
    /\ \A r \in RunIds :
           /\ run[r].pc # "raised"
           /\ run[r].failed_at # "" =>
                  /\ run[r].pc = "failed"
                  /\ ~run[r].success /\ run[r].message = "Error"
    /\ res.op \in EngineOps =>
           /\ ~res.raised
           /\ res.op = "match_skills" =>
                  (res.matched.failed # "none" => res.out = << >>)
           /\ res.op # "match_skills" =>
                  res.out.status \in {"success", "error"}

\* an embed_roles call that had upserted a role met a failure at the
\* embedding model on a later role and has returned (False, "Error: ...")
C19_Witness ==
    \E r \in RunIds :
        /\ run[r].pc = "failed" /\ run[r].failed_at = "encode"
        /\ run[r].embedded_count >= 1
        /\ ~run[r].success /\ run[r].message = "Error"

\* C20: when the connection to the index or the query fails, recommend_roles
\* called with a non-empty skill list returns status 'error', not 'success'
\* with no recommendation, and match_skills returns something other than
\* what it returns when the table has no row (the empty list).
C20_IndexFailureSurfaced ==
    /\ (res.op = "recommend_roles" /\ res.matcher_called
           /\ res.matched.failed \in {"connect", "query"}) =>
           res.out.status = "error"
    /\ (res.op = "match_skills"
           /\ res.matched.failed \in {"connect", "query"}) =>
           res.out # << >>

\* C21 as claimed: no step of any embed_roles() run, interleaved or not,
\* changes or removes a committed row: its embedding, category and creation
\* timestamp stay as they are.
C21_RowsNeverChange ==
    [][\A row \in store : row \in store']_vars

\* the run whose commit the step is
Committing(r) == run[r].pc = "commit" /\ run'[r].pc = "done"

\* C21 amended: no step removes a committed row or changes its id or
\* role_name, and a row is rewritten only by the commit of a run whose
\* lookup of that role_name had found no row, that is a run that looked the
\* role up before the row was committed by a run interleaved with it; the
\* commit then overwrites the row through ON CONFLICT DO UPDATE.
C21_RowsChangeOnlyInRace ==
    [][\A row \in store :
          \/ row \in store'
          \/ \E r \in RunIds :
                /\ Committing(r)
                /\ [name |-> row.role_name, found |-> FALSE]
                       \in Elems(run[r].looked)
                /\ \E kept \in store' :
                       kept.id = row.id /\ kept.role_name = row.role_name]_vars

\* a row inserted by one call carries the timestamp of a later call, whose
\* lookup had not found it and which has committed
C21_Witness ==
    \E row \in store, r \in RunIds :
        /\ row.id[1] # 0 /\ row.id[1] < row.created_at
        /\ Succeeded(r) /\ run[r].call = row.created_at
        /\ [name |-> row.role_name, found |-> FALSE] \in Elems(run[r].looked)

ScoreOf(distance, score) ==
    /\ (10 * score) - (UnitDistance - distance) \in -5..5
    /\ score \in -10000..10000
    /\ distance <= UnitDistance => score \in 0..10000
    /\ distance >= UnitDistance => score \in -10000..0

BucketsHolding(skill_gaps, m) ==
    {tier \in {"core_skills", "advanced_skills", "tools_and_technologies"} :
        \E k \in 1..Len(skill_gaps[tier]) : Normalize(skill_gaps[tier][k]) = m}

\* C23: the three gap buckets of suggest_upskilling partition the capped
\* missing_skills: every missing skill has an entry in exactly one bucket,
\* and every bucket entry's normalized form is a missing skill.
C23_BucketsPartitionMissing ==
    (res.op = "suggest_upskilling" /\ res.out.status = "success") =>
        LET missing == Elems(res.overlap.missing_skills)
            skill_gaps == res.out.skill_gaps
        IN  /\ \A m \in missing :
                   Cardinality(BucketsHolding(skill_gaps, m)) = 1
            /\ \A tier \in DOMAIN skill_gaps :
                   \A k \in 1..Len(skill_gaps[tier]) :
                       Normalize(skill_gaps[tier][k]) \in missing

\* the skills of a tier, in the role's order and casing, whose normalized
\* form is not among the candidate's normalized skills
TierGaps(tier, current_skills) ==
    SelectSeq(tier,
              LAMBDA s : Normalize(s) \notin Elems(NormalizeAll(current_skills)))

\* the role's distinct normalized skills that the candidate lacks
RequiredGap(role, current_skills) ==
    Elems(NormalizeAll(role.core_skills \o role.advanced_skills
                       \o role.tools_and_technologies))
        \ Elems(NormalizeAll(current_skills))

\* C24: for a role whose gap against the candidate has at most 10 skills,
\* suggest_upskilling returns in each bucket exactly the tier's skills, in
\* the role's order and casing, whose normalized form the candidate lacks.
C24_BucketsAreTierGaps ==
    (res.op = "suggest_upskilling" /\ res.out.status = "success") =>
        LET role == kb[GetRoleDetails(res.target_role)]
            skill_gaps == res.out.skill_gaps
        IN  Cardinality(RequiredGap(role, res.current_skills)) <= MissingCap =>
                /\ skill_gaps.core_skills =
                       TierGaps(role.core_skills, res.current_skills)
                /\ skill_gaps.advanced_skills =
                       TierGaps(role.advanced_skills, res.current_skills)
                /\ skill_gaps.tools_and_technologies =
                       TierGaps(role.tools_and_technologies, res.current_skills)

\* C25: only the indexer changes state. No step of any operation changes the
\* in-memory catalogue; a step of match_skills, recommend_roles,
\* suggest_upskilling, get_career_progression, get_all_roles or get_all_skills
\* leaves the table as it is; the table changes only where an embed_roles()
\* call commits.
C25_OnlyIndexerMutates ==
    [][/\ kb' = kb
       /\ res' # res => store' = store
       /\ store' # store => \E r \in RunIds : Committing(r)]_vars

\* match_skills has returned matches from a table that holds the catalogue
C25_Witness ==
    /\ res.op = "match_skills" /\ Len(res.out) = Len(kb)
    /\ kb = KnowledgeBase /\ store = IndexedRows(kb)

ServiceOps ==
    {"POST /api/match-skills", "POST /api/recommend-roles",
     "POST /api/career-progression", "POST /api/generate-course"}

\* C26: every match_skills call the service makes has top_k in 1..20, and a
\* request whose top_k lies outside 1..20 is rejected before match_skills is
\* called.
C26_ServiceBoundsTopK ==
    res.op \in ServiceOps =>
        /\ \A q \in 1..Len(res.queries) : res.queries[q] \in 1..MaxTopK
        /\ ("top_k" \in DOMAIN res /\ res.top_k \notin 1..MaxTopK) =>
               /\ res.queries = << >>
               /\ res.response.code \in {404, 422}

\* the lookups of call r that found no row, in order
Misses(r) == SelectSeq(run[r].looked, LAMBDA e : ~e.found)

\* C27: within embed_roles() the lookup of a role by its exact role_name
\* comes before any embedding of it, and the embedding model is never called
\* for a role whose row the lookup found: the roles given to the model are,
\* in order, the roles the lookups missed, the last miss being embedded next.
C27_LookupBeforeEncode ==
    \A r \in RunIds :
        /\ Len(run[r].encoded) <= Len(Misses(r))
        /\ Len(Misses(r)) <= Len(run[r].encoded) + 1
        /\ \A k \in 1..Len(run[r].encoded) :
               /\ run[r].encoded[k] = Misses(r)[k].name
               /\ [name |-> run[r].encoded[k], found |-> TRUE]
                      \notin Elems(run[r].looked)
        /\ run[r].pc = "encode" =>
               /\ Len(Misses(r)) = Len(run[r].encoded) + 1
               /\ Misses(r)[Len(Misses(r))].name = kb[run[r].i].role_name
        /\ \A k \in 1..Len(run[r].looked) :
               run[r].looked[k].name = kb[k].role_name

\* a call found the row of one role and embedded another, and has finished
C27_Witness ==
    \E r \in RunIds :
        /\ Succeeded(r)
        /\ \E e \in Elems(run[r].looked) : e.found
        /\ run[r].encoded # << >>
        /\ run[r].skipped_count + run[r].embedded_count = Len(kb)

\* C28: indexing is all-or-nothing per call. The table changes only at the
\* one commit of a call, which comes after the last role; the step at which
\* a call fails, and every later step of that call, leaves the table as it
\* is, and no row in the table was written by a call that failed.
C28_AllOrNothing ==
    [][/\ store' # store =>
              \E q \in RunIds :
                  /\ Committing(q)
                  /\ run[q].i = Len(kb) + 1
                  /\ Len(run[q].looked) = Len(kb)
       /\ \A r \in RunIds :
              /\ run'[r].pc = "failed" =>
                     /\ ~Committing(r)
                     /\ \A row \in store' :
                            row.id[1] # run'[r].call
                            /\ row.created_at # run'[r].call
              /\ (run[r].pc = "failed" /\ run'[r] # run[r]) =>
                     store' = store]_vars

\* a call that had upserted the first role failed at a later one; its
\* session is closed and the table, empty before the call, is still empty
C28_Witness ==
    \E r \in RunIds :
        /\ run[r].pc = "failed" /\ run[r].failed_at \in PerRoleSteps
        /\ run[r].encoded # << >> /\ run[r].embedded_count >= 1
        /\ run[r].conn = "closed" /\ run[r].pending = {}
        /\ run[r].rows_at_start = 0 /\ store = {}

\* C29: every connection that embed_roles or match_skills opened is closed
\* when the operation returns, on the success path and on every failure path.
C29_ConnectionsClosed ==
    /\ \A r \in RunIds :
           run[r].pc \in {"done", "failed"} => run[r].conn # "open"
    /\ res.op = "match_skills" => res.matched.conn # "open"

\* C30: in every successful result of get_career_progression the reported
\* current_role names the catalogue role whose career_progression is returned
\* as progression_path, also when that role was found through the matcher.
C30_CurrentRoleIsResolved ==
    (res.op = "get_career_progression" /\ res.out.status = "success") =>
        /\ res.out.progression_path = kb[res.resolved].career_progression
        /\ res.out.current_role = kb[res.resolved].role_name

====
